---- MODULE Spec2Model ----
(***************************************************************************)
(* Dependency export of typst-cli (crates/typst-cli/src/deps.rs).          *)
(*                                                                         *)
(* An OsString is a sequence of code units.  A unit is a one-character     *)
(* string; BAD stands for a byte that is not valid UTF-8 (to_str() fails   *)
(* on every OsString that holds it) and NUL for the byte 0x00.  The        *)
(* destination is the sequence of units written to it so far; the sink     *)
(* accepts every write (I/O failures of the sink are not modelled).        *)
(***************************************************************************)
EXTENDS Integers, Sequences, FiniteSets, TLC

\* ------------------------------------------------------------------ bounds
MaxDeps == 2
MaxOutputs == 2
MaxLen == 4

\* ------------------------------------------------------------- code units
BAD == "0xFF"
NUL == "0x00"
SEP == "/"
BSL == "\\"
TAB == "\t"

VARIABLES
    format,         \* DepsFormat: "Json", "Zero" or "Make"
    outputs,        \* Option<&[Output]>: [some |-> BOOLEAN, list |-> Seq(Output)]
    root,           \* world.root()
    current_dir,    \* std::env::current_dir()
    deps,           \* the paths world.dependencies() yields, in order
    pc,             \* position in write_deps
    opened,         \* dest.open() has been called
    dest,           \* units written to the destination
    i,              \* enumerate() index of the output loops
    consumed,       \* how many dependencies the iterator has yielded
    relative_root,  \* [some |-> BOOLEAN, path |-> OsString]; set by relative_dependencies
    first,          \* serde_json sequence state: no element written yet
    result,         \* io::Result<()> of write_deps
    s,              \* munge: the argument
    res,            \* munge: the result string
    slashes,        \* munge: running count of backslashes
    pos,            \* munge: characters consumed by the for loop
    mpc             \* munge: "loop" or "done"

mainVars == <<format, outputs, root, current_dir, deps, pc, opened, dest, i,
              consumed, relative_root, first, result>>
mungeVars == <<s, res, slashes, pos, mpc>>
vars == <<format, outputs, root, current_dir, deps, pc, opened, dest, i,
          consumed, relative_root, first, result, s, res, slashes, pos, mpc>>

\* ------------------------------------------------------- sequence helpers
RECURSIVE Flatten(_)
Flatten(ss) == IF ss = <<>> THEN <<>> ELSE Head(ss) \o Flatten(Tail(ss))

RECURSIVE DropEmpty(_)
\* the non-empty elements of ss, in order
DropEmpty(ss) ==
    IF ss = <<>> THEN <<>>
    ELSE (IF Head(ss) = <<>> THEN <<>> ELSE <<Head(ss)>>) \o DropEmpty(Tail(ss))

RECURSIVE SeqsUpTo(_, _)
\* all sequences over S of length at most n
SeqsUpTo(S, n) ==
    IF n = 0 THEN {<<>>}
    ELSE LET shorter == SeqsUpTo(S, n - 1)
         IN  shorter \cup {Append(q, x) : q \in shorter, x \in S}

\* ------------------------------------------------------------------ munge
\* the characters the match arms of munge push before the character itself
MungePrefixFlat(c, n) ==
    IF c = "$" THEN <<"$">>
    ELSE IF c = ":" \/ c = "#" \/ c = " " \/ c = TAB THEN <<BSL>>
    ELSE <<>>

MungePrefix(c, n) ==
    IF c = "$" THEN <<"$">>
    ELSE IF c = ":" THEN <<BSL>>
    ELSE IF c = " " \/ c = TAB THEN [k \in 1..(n + 1) |-> BSL]
    ELSE IF c = "#" THEN <<BSL>>
    ELSE <<>>

\* the value of `slashes` after the match on c
MungeSlashes(c, n) == IF c = BSL THEN n + 1 ELSE 0

RECURSIVE MungeFrom(_, _, _, _)
MungeFrom(str, k, n, acc) ==
    IF k > Len(str) THEN acc
    ELSE MungeFrom(str, k + 1, MungeSlashes(str[k], n),
                   (acc \o MungePrefix(str[k], n)) \o <<str[k]>>)

munge(str) == MungeFrom(str, 1, 0, <<>>)

\* ------------------------------------------------------------------ paths
to_str_ok(p) == \A k \in 1..Len(p) : p[k] # BAD

is_absolute(p) == Len(p) > 0 /\ p[1] = SEP

RootDir == <<SEP>>
CurDir == <<".">>
ParentDir == <<".", ".">>

RECURSIVE SplitOn(_, _, _, _)
\* the maximal runs of units other than d in p[k..], cur being the run in progress
SplitOn(p, d, k, cur) ==
    IF k > Len(p) THEN <<cur>>
    ELSE IF p[k] = d THEN <<cur>> \o SplitOn(p, d, k + 1, <<>>)
    ELSE SplitOn(p, d, k + 1, Append(cur, p[k]))

\* Path::components: RootDir for a leading separator, then the non-empty
\* segments between separators
components(p) ==
    (IF is_absolute(p) THEN <<RootDir>> ELSE <<>>)
        \o DropEmpty(SplitOn(p, SEP, 1, <<>>))

\* PathBuf::push
join(base, x) ==
    IF is_absolute(x) THEN x
    ELSE IF base = <<>> \/ base[Len(base)] = SEP THEN base \o x
    ELSE (base \o <<SEP>>) \o x

RECURSIVE collect(_, _)
\* Iterator<Component>::collect::<PathBuf>
collect(cs, acc) ==
    IF cs = <<>> THEN acc ELSE collect(Tail(cs), join(acc, Head(cs)))

None == [some |-> FALSE, path |-> <<>>]
Some(p) == [some |-> TRUE, path |-> p]

RECURSIVE DiffLoop(_, _, _, _)
DiffLoop(A, B, k, comps) ==
    IF k > Len(A) /\ k > Len(B) THEN Some(collect(comps, <<>>))
    ELSE IF k > Len(B) THEN Some(collect(comps \o SubSeq(A, k, Len(A)), <<>>))
    ELSE IF k > Len(A) THEN DiffLoop(A, B, k + 1, Append(comps, ParentDir))
    ELSE IF comps = <<>> /\ A[k] = B[k] THEN DiffLoop(A, B, k + 1, comps)
    ELSE IF B[k] = CurDir THEN DiffLoop(A, B, k + 1, Append(comps, A[k]))
    ELSE IF B[k] = ParentDir THEN None
    ELSE Some(collect((comps \o [j \in 1..(Len(B) - k + 1) |-> ParentDir])
                          \o SubSeq(A, k, Len(A)), <<>>))

\* pathdiff::diff_paths(path, base)
diff_paths(path, base) ==
    IF is_absolute(path) # is_absolute(base)
    THEN (IF is_absolute(path) THEN Some(path) ELSE None)
    ELSE DiffLoop(components(path), components(base), 1, <<>>)

\* Path::strip_prefix: component-wise; the remainder on success
strip_prefix(p, base) ==
    LET P == components(p)
        B == components(base)
    IN  IF Len(B) <= Len(P) /\ SubSeq(P, 1, Len(B)) = B
        THEN Some(collect(SubSeq(P, Len(B) + 1, Len(P)), <<>>))
        ELSE None

\* relative_root of relative_dependencies
compute_relative_root(r, cwd) ==
    LET d == diff_paths(r, cwd) IN IF d.some THEN d.path ELSE r

\* the closure mapped over world.dependencies()
relative_dependency_unjoined(r, rel, dependency) ==
    LET x == strip_prefix(dependency, r)
    IN  IF x.some THEN x.path ELSE dependency

relative_dependency(r, rel, dependency) ==
    LET x == strip_prefix(dependency, r)
    IN  IF x.some THEN join(rel, x.path) ELSE dependency

\* ----------------------------------------------------------------- inputs
Stdout == [tag |-> "Stdout", path |-> <<>>]
Path(p) == [tag |-> "Path", path |-> p]

NoOutputs == [some |-> FALSE, list |-> <<>>]
SomeOutputs(l) == [some |-> TRUE, list |-> l]

\* dependencies: /p/s/a b, /p/<BAD>, r/a
DepPool ==
    { <<SEP, "p", SEP, "s", SEP, "a", " ", "b">>,
      <<SEP, "p", SEP, BAD>>,
      <<"r", SEP, "a">> }

\* outputs: stdout, o, c:\o, o<BAD>
OutPool ==
    { Stdout, Path(<<"o">>), Path(<<"c", ":", BSL, "o">>), Path(<<"o", BAD>>) }

\* (root, current directory): (/p, /p), (/p, /p/s), (/p, /q), (/p/s/a, /p), (r, /p)
EnvPool ==
    { <<<<SEP, "p">>, <<SEP, "p">>>>,
      <<<<SEP, "p">>, <<SEP, "p", SEP, "s">>>>,
      <<<<SEP, "p">>, <<SEP, "q">>>>,
      <<<<SEP, "p", SEP, "s", SEP, "a">>, <<SEP, "p">>>>,
      <<<<"r">>, <<SEP, "p">>>> }

Formats == {"Json", "Zero", "Make"}

MungeAlphabet == {"a", BSL, " ", TAB, "$", ":", "#"}

\* ---------------------------------------------------------------- results
Pending == [status |-> "pending", msg |-> "", path |-> <<>>]
Ok == [status |-> "Ok", msg |-> "", path |-> <<>>]
Err(m, p) == [status |-> "Err", msg |-> m, path |-> p]

\* ------------------------------------------------------------- serde_json
\* format_escaped_str: the string between quotes, with its escapes
JsonEscape(c) ==
    IF c = "\"" THEN <<BSL, "\"">>
    ELSE IF c = BSL THEN <<BSL, BSL>>
    ELSE IF c = TAB THEN <<BSL, "t">>
    ELSE <<c>>

JsonString(str) ==
    (<<"\"">> \o Flatten([k \in 1..Len(str) |-> JsonEscape(str[k])])) \o <<"\"">>

KeyInputs == <<"i", "n", "p", "u", "t", "s">>
KeyOutputs == <<"o", "u", "t", "p", "u", "t", "s">>
JsonNull == <<"n", "u", "l", "l">>

\* SerializeSeq::serialize_element of a string: a comma unless it is the first
json_element(isFirst, str) ==
    (IF isFirst THEN <<>> ELSE <<",">>) \o JsonString(str)

\* ------------------------------------------------------------- write_deps
\* the match of write_deps: the writer the call is routed to
RouteMakeAlways(f, outs) ==
    IF f = "Json" THEN "write_deps_json"
    ELSE IF f = "Zero" THEN "write_deps_zero"
    ELSE "write_deps_make"

Route(f, outs) ==
    IF f = "Json" THEN "write_deps_json"
    ELSE IF f = "Zero" THEN "write_deps_zero"
    ELSE IF outs.some THEN "write_deps_make"
    ELSE "done"

write_deps ==
    /\ pc = "write_deps"
    /\ pc' = Route(format, outputs)
    /\ result' = IF Route(format, outputs) = "done" THEN Ok ELSE result
    /\ UNCHANGED <<format, outputs, root, current_dir, deps, opened, dest, i,
                   consumed, relative_root, first>>
    /\ UNCHANGED mungeVars

\* the next item of relative_dependencies(world)
NextDep == relative_dependency(root, relative_root.path, deps[consumed + 1])

\* ------------------------------------------------------- write_deps_json
write_deps_json ==
    /\ pc = "write_deps_json"
    /\ opened' = TRUE
    /\ relative_root' = Some(compute_relative_root(root, current_dir))
    /\ dest' = ((dest \o <<"{">>) \o JsonString(KeyInputs)) \o <<":", "[">>
    /\ first' = TRUE
    /\ pc' = "InputSerializer"
    /\ UNCHANGED <<format, outputs, root, current_dir, deps, i, consumed, result>>
    /\ UNCHANGED mungeVars

InputSerializer_element ==
    /\ pc = "InputSerializer"
    /\ consumed < Len(deps)
    /\ to_str_ok(NextDep)
    /\ consumed' = consumed + 1
    /\ dest' = dest \o json_element(first, NextDep)
    /\ first' = FALSE
    /\ UNCHANGED <<format, outputs, root, current_dir, deps, pc, opened, i,
                   relative_root, result>>
    /\ UNCHANGED mungeVars

InputSerializer_error ==
    /\ pc = "InputSerializer"
    /\ consumed < Len(deps)
    /\ ~to_str_ok(NextDep)
    /\ consumed' = consumed + 1
    /\ result' = Err("input is not valid utf-8", NextDep)
    /\ pc' = "done"
    /\ UNCHANGED <<format, outputs, root, current_dir, deps, opened, dest, i,
                   relative_root, first>>
    /\ UNCHANGED mungeVars

\* what follows the "outputs" key: null, or the opening of the array
outputs_value(outs) == IF outs.some THEN <<"[">> ELSE JsonNull

InputSerializer_end ==
    /\ pc = "InputSerializer"
    /\ consumed = Len(deps)
    /\ dest' = ((((dest \o <<"]">>) \o <<",">>) \o JsonString(KeyOutputs)) \o <<":">>)
                   \o outputs_value(outputs)
    /\ first' = TRUE
    /\ i' = 0
    /\ pc' = IF outputs.some THEN "OutputSerializer" ELSE "json_end"
    /\ UNCHANGED <<format, outputs, root, current_dir, deps, opened, consumed,
                   relative_root, result>>
    /\ UNCHANGED mungeVars

\* one iteration of the loop of OutputSerializer::serialize
output_element_placeholder(isFirst, output) ==
    IF output.tag = "Stdout"
    THEN [err |-> FALSE, wrote |-> TRUE,
          bytes |-> (IF isFirst THEN <<>> ELSE <<",">>) \o JsonNull]
    ELSE IF to_str_ok(output.path)
    THEN [err |-> FALSE, wrote |-> TRUE, bytes |-> json_element(isFirst, output.path)]
    ELSE [err |-> TRUE, wrote |-> FALSE, bytes |-> <<>>]

output_element(isFirst, output) ==
    IF output.tag = "Stdout"
    THEN [err |-> FALSE, wrote |-> FALSE, bytes |-> <<>>]
    ELSE IF to_str_ok(output.path)
    THEN [err |-> FALSE, wrote |-> TRUE, bytes |-> json_element(isFirst, output.path)]
    ELSE [err |-> TRUE, wrote |-> FALSE, bytes |-> <<>>]

OutputSerializer_element ==
    /\ pc = "OutputSerializer"
    /\ i < Len(outputs.list)
    /\ LET e == output_element(first, outputs.list[i + 1])
       IN  /\ ~e.err
           /\ dest' = dest \o e.bytes
           /\ first' = (first /\ ~e.wrote)
    /\ i' = i + 1
    /\ UNCHANGED <<format, outputs, root, current_dir, deps, pc, opened, consumed,
                   relative_root, result>>
    /\ UNCHANGED mungeVars

OutputSerializer_error ==
    /\ pc = "OutputSerializer"
    /\ i < Len(outputs.list)
    /\ output_element(first, outputs.list[i + 1]).err
    /\ result' = Err("output is not valid utf-8", outputs.list[i + 1].path)
    /\ pc' = "done"
    /\ UNCHANGED <<format, outputs, root, current_dir, deps, opened, dest, i,
                   consumed, relative_root, first>>
    /\ UNCHANGED mungeVars

OutputSerializer_end ==
    /\ pc = "OutputSerializer"
    /\ i = Len(outputs.list)
    /\ dest' = dest \o <<"]">>
    /\ pc' = "json_end"
    /\ UNCHANGED <<format, outputs, root, current_dir, deps, opened, i, consumed,
                   relative_root, first, result>>
    /\ UNCHANGED mungeVars

\* SerializeMap::end
json_end ==
    /\ pc = "json_end"
    /\ dest' = dest \o <<"}">>
    /\ result' = Ok
    /\ pc' = "done"
    /\ UNCHANGED <<format, outputs, root, current_dir, deps, opened, i, consumed,
                   relative_root, first>>
    /\ UNCHANGED mungeVars

\* ------------------------------------------------------- write_deps_zero
write_deps_zero ==
    /\ pc = "write_deps_zero"
    /\ opened' = TRUE
    /\ relative_root' = Some(compute_relative_root(root, current_dir))
    /\ pc' = "zero_loop"
    /\ UNCHANGED <<format, outputs, root, current_dir, deps, dest, i, consumed,
                   first, result>>
    /\ UNCHANGED mungeVars

\* the two write_all calls of the loop body
zero_record_text_only(dep) == IF to_str_ok(dep) THEN dep \o <<NUL>> ELSE <<>>

zero_record(dep) == dep \o <<NUL>>

zero_loop ==
    /\ pc = "zero_loop"
    /\ consumed < Len(deps)
    /\ consumed' = consumed + 1
    /\ dest' = dest \o zero_record(NextDep)
    /\ UNCHANGED <<format, outputs, root, current_dir, deps, pc, opened, i,
                   relative_root, first, result>>
    /\ UNCHANGED mungeVars

zero_end ==
    /\ pc = "zero_loop"
    /\ consumed = Len(deps)
    /\ result' = Ok
    /\ pc' = "done"
    /\ UNCHANGED <<format, outputs, root, current_dir, deps, opened, dest, i,
                   consumed, relative_root, first>>
    /\ UNCHANGED mungeVars

\* ------------------------------------------------------- write_deps_make
write_deps_make ==
    /\ pc = "write_deps_make"
    /\ opened' = TRUE
    /\ i' = 0
    /\ pc' = "make_targets"
    /\ UNCHANGED <<format, outputs, root, current_dir, deps, dest, consumed,
                   relative_root, first, result>>
    /\ UNCHANGED mungeVars

\* one iteration of the loop over outputs.iter().enumerate(); idx is the
\* enumerate() index, counted from 0
make_target_skip_stdout(idx, output) ==
    IF output.tag = "Stdout" \/ ~to_str_ok(output.path)
    THEN [act |-> "continue", bytes |-> <<>>]
    ELSE [act |-> "write",
          bytes |-> (IF idx # 0 THEN <<" ">> ELSE <<>>) \o munge(output.path)]

make_target(idx, output) ==
    IF output.tag = "Stdout" THEN [act |-> "return_err", bytes |-> <<>>]
    ELSE IF ~to_str_ok(output.path) THEN [act |-> "continue", bytes |-> <<>>]
    ELSE [act |-> "write",
          bytes |-> (IF idx # 0 THEN <<" ">> ELSE <<>>) \o munge(output.path)]

make_targets_step ==
    /\ pc = "make_targets"
    /\ i < Len(outputs.list)
    /\ make_target(i, outputs.list[i + 1]).act # "return_err"
    /\ dest' = dest \o make_target(i, outputs.list[i + 1]).bytes
    /\ i' = i + 1
    /\ UNCHANGED <<format, outputs, root, current_dir, deps, pc, opened, consumed,
                   relative_root, first, result>>
    /\ UNCHANGED mungeVars

make_targets_stdout ==
    /\ pc = "make_targets"
    /\ i < Len(outputs.list)
    /\ make_target(i, outputs.list[i + 1]).act = "return_err"
    /\ result' = Err("make dependencies contain the output path, but the output was stdout", <<>>)
    /\ pc' = "done"
    /\ UNCHANGED <<format, outputs, root, current_dir, deps, opened, dest, i,
                   consumed, relative_root, first>>
    /\ UNCHANGED mungeVars

make_colon ==
    /\ pc = "make_targets"
    /\ i = Len(outputs.list)
    /\ dest' = dest \o <<":">>
    /\ relative_root' = Some(compute_relative_root(root, current_dir))
    /\ pc' = "make_deps"
    /\ UNCHANGED <<format, outputs, root, current_dir, deps, opened, i, consumed,
                   first, result>>
    /\ UNCHANGED mungeVars

\* one iteration of the loop over relative_dependencies(world)
make_dep_joined(n, dep) ==
    IF ~to_str_ok(dep) THEN <<>>
    ELSE (IF n # 0 THEN <<" ">> ELSE <<>>) \o munge(dep)

make_dep(n, dep) ==
    IF ~to_str_ok(dep) THEN <<>> ELSE <<" ">> \o munge(dep)

make_deps_step ==
    /\ pc = "make_deps"
    /\ consumed < Len(deps)
    /\ consumed' = consumed + 1
    /\ dest' = dest \o make_dep(consumed, NextDep)
    /\ UNCHANGED <<format, outputs, root, current_dir, deps, pc, opened, i,
                   relative_root, first, result>>
    /\ UNCHANGED mungeVars

make_newline ==
    /\ pc = "make_deps"
    /\ consumed = Len(deps)
    /\ dest' = dest \o <<"\n">>
    /\ result' = Ok
    /\ pc' = "done"
    /\ UNCHANGED <<format, outputs, root, current_dir, deps, opened, i, consumed,
                   relative_root, first>>
    /\ UNCHANGED mungeVars

\* ------------------------------------------------------------ munge, stepwise
munge_char ==
    /\ mpc = "loop"
    /\ pos < Len(s)
    /\ res' = (res \o MungePrefix(s[pos + 1], slashes)) \o <<s[pos + 1]>>
    /\ slashes' = MungeSlashes(s[pos + 1], slashes)
    /\ pos' = pos + 1
    /\ UNCHANGED <<s, mpc>>
    /\ UNCHANGED mainVars

munge_return ==
    /\ mpc = "loop"
    /\ pos = Len(s)
    /\ mpc' = "done"
    /\ UNCHANGED <<s, res, slashes, pos>>
    /\ UNCHANGED mainVars

\* --------------------------------------------------------- specifications
MungeIdle ==
    /\ s = <<>>
    /\ res = <<>>
    /\ slashes = 0
    /\ pos = 0
    /\ mpc = "idle"

Init ==
    /\ format \in Formats
    /\ outputs \in {NoOutputs} \cup {SomeOutputs(l) : l \in SeqsUpTo(OutPool, MaxOutputs)}
    /\ \E e \in EnvPool : root = e[1] /\ current_dir = e[2]
    /\ deps \in SeqsUpTo(DepPool, MaxDeps)
    /\ pc = "write_deps"
    /\ opened = FALSE
    /\ dest = <<>>
    /\ i = 0
    /\ consumed = 0
    /\ relative_root = None
    /\ first = TRUE
    /\ result = Pending
    /\ MungeIdle

Next ==
    \/ write_deps
    \/ write_deps_json
    \/ InputSerializer_element
    \/ InputSerializer_error
    \/ InputSerializer_end
    \/ OutputSerializer_element
    \/ OutputSerializer_error
    \/ OutputSerializer_end
    \/ json_end
    \/ write_deps_zero
    \/ zero_loop
    \/ zero_end
    \/ write_deps_make
    \/ make_targets_step
    \/ make_targets_stdout
    \/ make_colon
    \/ make_deps_step
    \/ make_newline

Spec == Init /\ [][Next]_vars

MainIdle ==
    /\ format = "Make"
    /\ outputs = NoOutputs
    /\ root = <<>>
    /\ current_dir = <<>>
    /\ deps = <<>>
    /\ pc = "idle"
    /\ opened = FALSE
    /\ dest = <<>>
    /\ i = 0
    /\ consumed = 0
    /\ relative_root = None
    /\ first = TRUE
    /\ result = Pending

InitMunge ==
    /\ MainIdle
    /\ s \in SeqsUpTo(MungeAlphabet, MaxLen)
    /\ res = <<>>
    /\ slashes = 0
    /\ pos = 0
    /\ mpc = "loop"

NextMunge ==
    \/ munge_char
    \/ munge_return

SpecMunge == InitMunge /\ [][NextMunge]_vars

TypeOK ==
    /\ format \in Formats
    /\ pc \in {"idle", "write_deps", "write_deps_json", "InputSerializer",
               "OutputSerializer", "json_end", "write_deps_zero", "zero_loop",
               "write_deps_make", "make_targets", "make_deps", "done"}
    /\ opened \in BOOLEAN
    /\ first \in BOOLEAN
    /\ i \in 0..Len(outputs.list)
    /\ consumed \in 0..Len(deps)
    /\ result.status \in {"pending", "Ok", "Err"}
    /\ (pc = "done") = (result.status # "pending")

\* ------------------------------------------------- vocabulary of the claims
RECURSIVE JoinWith(_, _)
\* the elements of ss with d between successive ones
JoinWith(ss, d) ==
    IF ss = <<>> THEN <<>>
    ELSE IF Len(ss) = 1 THEN ss[1]
    ELSE (ss[1] \o d) \o JoinWith(Tail(ss), d)

RECURSIVE FilePaths(_)
\* the paths of the FilePath entries of an output list, in list order
FilePaths(l) ==
    IF l = <<>> THEN <<>>
    ELSE (IF Head(l).tag = "Path" THEN <<Head(l).path>> ELSE <<>>) \o FilePaths(Tail(l))

RECURSIVE TextOnly(_)
\* the paths of ps that are valid text, in order
TextOnly(ps) ==
    IF ps = <<>> THEN <<>>
    ELSE (IF to_str_ok(Head(ps)) THEN <<Head(ps)>> ELSE <<>>) \o TextOnly(Tail(ps))

HasStdout(l) == \E k \in 1..Len(l) : l[k].tag = "Stdout"
AllFilePaths(l) == \A k \in 1..Len(l) : l[k].tag = "Path"
AllTextFilePaths(l) == \A k \in 1..Len(l) : l[k].tag = "Path" /\ to_str_ok(l[k].path)

\* a ':' of the destination that no backslash precedes
SeparatorAt(d, k) == d[k] = ":" /\ (k = 1 \/ d[k - 1] # BSL)
Separators(d) == {k \in 1..Len(d) : SeparatorAt(d, k)}
Count(d, c) == Cardinality({k \in 1..Len(d) : d[k] = c})

EndsWith(d, suffix) ==
    Len(suffix) <= Len(d) /\ SubSeq(d, Len(d) - Len(suffix) + 1, Len(d)) = suffix

\* the dependency source with every path of the root re-anchored, as the spec
\* words it: prefix test and remainder taken component by component
HasRootPrefix(d) ==
    LET D == components(d)
        R == components(root)
    IN  Len(R) <= Len(D) /\ \A k \in 1..Len(R) : D[k] = R[k]

Remainder(d) == SubSeq(components(d), Len(components(root)) + 1, Len(components(d)))

RECURSIVE Resolve(_, _)
\* the components reached from the directory `at` by walking the components cs
Resolve(at, cs) ==
    IF cs = <<>> THEN at
    ELSE IF Head(cs) = ParentDir THEN Resolve(SubSeq(at, 1, Len(at) - 1), Tail(cs))
    ELSE Resolve(Append(at, Head(cs)), Tail(cs))

ExpectedRelRoot == compute_relative_root(root, current_dir)

Relativized ==
    [k \in 1..Len(deps) |->
        IF HasRootPrefix(deps[k])
        THEN JoinWith(components(ExpectedRelRoot) \o Remainder(deps[k]), <<SEP>>)
        ELSE deps[k]]

\* the records of a Delimited destination: split on NUL, trailing segment dropped
ZeroRecords(d) ==
    LET segs == SplitOn(d, NUL, 1, <<>>) IN SubSeq(segs, 1, Len(segs) - 1)

JsonArray(strs) ==
    (<<"[">> \o JoinWith([k \in 1..Len(strs) |-> JsonString(strs[k])], <<",">>)) \o <<"]">>

JsonDocument(ins, outsValue) ==
    ((((<<"{">> \o JsonString(KeyInputs)) \o <<":">>) \o JsonArray(ins))
        \o ((<<",">> \o JsonString(KeyOutputs)) \o <<":">>)) \o (outsValue \o <<"}">>)

MakeTargets(l) ==
    JoinWith([k \in 1..Len(TextOnly(FilePaths(l))) |-> munge(TextOnly(FilePaths(l))[k])],
             <<" ">>)

MakeDeps ==
    Flatten([k \in 1..Len(TextOnly(Relativized)) |->
                <<" ">> \o munge(TextOnly(Relativized)[k])])

Finished == pc = "done"

\* ------------------------------------------------------------------ claims

\* C1: in Rule (Make) format, an output list that holds a StandardOutput entry
\* makes write_deps return an error; in no state of such a call has the
\* destination received the ':' separator or a newline, and the dependency
\* source is never iterated (relative_dependencies is not even called).
C1_StdoutTargetFails ==
    (format = "Make" /\ outputs.some /\ HasStdout(outputs.list)) =>
        /\ Separators(dest) = {}
        /\ Count(dest, "\n") = 0
        /\ consumed = 0
        /\ relative_root = None
        /\ pc # "make_deps"
        /\ (Finished => result.status = "Err")

C1_Witness ==
    /\ Finished
    /\ format = "Make"
    /\ outputs.some
    /\ Len(outputs.list) >= 2
    /\ outputs.list[1].tag = "Path"
    /\ outputs.list[Len(outputs.list)].tag = "Stdout"
    /\ result.status = "Err"
    /\ dest # <<>>
    /\ deps # <<>>

\* C2: in Rule format with only FilePath entries, what is written before the
\* ':' separator is exactly the munge-escaped text targets joined by single
\* spaces, wherever the skipped non-text entries are.
C2_TargetsSpaceJoined ==
    (format = "Make" /\ outputs.some /\ AllFilePaths(outputs.list) /\ pc = "make_deps") =>
        SubSeq(dest, 1, Len(MakeTargets(outputs.list)) + 1)
            = MakeTargets(outputs.list) \o <<":">>

\* C3: in Rule format with an output list that leaves no target after
\* filtering, nothing of a rule reaches the destination.
C3_NoTargetsNoRule ==
    (format = "Make" /\ outputs.some /\ AllFilePaths(outputs.list)
        /\ TextOnly(FilePaths(outputs.list)) = <<>>) =>
        (Count(dest, ":") = 0 /\ Count(dest, "\n") = 0 /\ consumed = 0)

\* C4: Rule format without an output list returns success without opening or
\* writing the destination and without touching the dependency source; the
\* Structured and Delimited formats run their writer with no output list.
C4_MakeWithoutOutputsIsNoOp ==
    /\ (format = "Make" /\ ~outputs.some) =>
          /\ dest = <<>>
          /\ ~opened
          /\ consumed = 0
          /\ relative_root = None
          /\ (Finished => result = Ok)
    /\ (format \in {"Json", "Zero"} /\ ~outputs.some /\ Finished) =>
          /\ opened
          /\ relative_root.some
          /\ (result = Ok => consumed = Len(deps))
          /\ (format = "Json" => dest # <<>>)
          /\ (format = "Zero" /\ deps # <<>> => dest # <<>>)

C4_Witness ==
    /\ Finished
    /\ format = "Make"
    /\ ~outputs.some
    /\ deps # <<>>
    /\ result = Ok

\* C5: the Structured format is all-or-nothing: a finished call has either
\* succeeded with one complete document in the destination, or failed with
\* the destination holding nothing.
C5_JsonAllOrNothing ==
    (format = "Json" /\ Finished) =>
        \/ /\ result = Ok
           /\ dest = JsonDocument(Relativized,
                                  IF outputs.some THEN JsonArray(FilePaths(outputs.list))
                                  ELSE JsonNull)
        \/ /\ result.status = "Err"
           /\ dest = <<>>

\* C6: a successful Structured export is the object with the keys inputs and
\* outputs in that order; outputs is null exactly when no output list was
\* passed, and otherwise the array of the FilePath entries in list order,
\* StandardOutput entries leaving no trace.
C6_JsonOutputsField ==
    (format = "Json" /\ Finished /\ result = Ok) =>
        /\ dest = JsonDocument(Relativized,
                               IF outputs.some THEN JsonArray(FilePaths(outputs.list))
                               ELSE JsonNull)
        /\ EndsWith(dest, JsonNull \o <<"}">>) <=> ~outputs.some
        /\ outputs.some => EndsWith(dest, <<"]", "}">>)

C6_Witness ==
    /\ Finished
    /\ format = "Json"
    /\ result = Ok
    /\ outputs.some
    /\ Len(outputs.list) >= 2
    /\ HasStdout(outputs.list)
    /\ FilePaths(outputs.list) # <<>>

\* C7: the Delimited output is each relativized path followed by one NUL, in
\* iteration order; splitting on NUL gives back the relativized list, the
\* number of NULs is the number of dependencies, and no dependency gives no byte.
C7_ZeroRoundTrip ==
    (format = "Zero" /\ Finished) =>
        /\ result = Ok
        /\ dest = Flatten([k \in 1..Len(deps) |-> Relativized[k] \o <<NUL>>])
        /\ ZeroRecords(dest) = Relativized
        /\ Count(dest, NUL) = Len(deps)
        /\ (deps = <<>> => dest = <<>>)

C7_Witness ==
    /\ Finished
    /\ format = "Zero"
    /\ Len(deps) >= 2
    /\ \E k \in 1..Len(deps) : ~to_str_ok(deps[k])
    /\ \E k \in 1..Len(deps) : to_str_ok(deps[k])
    /\ Len(ZeroRecords(dest)) = Len(deps)

\* C8: the relative root, once computed, leads from the working directory to
\* the root (or is the root itself when pathdiff finds no relative path); a
\* dependency under the root is emitted as the relative root followed by its
\* remainder, any other dependency unchanged, one record per dependency in
\* order; with the working directory equal to the root, R/x is emitted as x.
C8_Relativization ==
    /\ relative_root.some =>
          /\ relative_root.path = ExpectedRelRoot
          /\ \/ /\ is_absolute(root)
                /\ Resolve(components(current_dir), components(relative_root.path))
                       = components(root)
             \/ /\ ~is_absolute(root)
                /\ relative_root.path = root
    /\ (format = "Zero" /\ Finished) =>
          /\ Len(ZeroRecords(dest)) = Len(deps)
          /\ \A k \in 1..Len(deps) :
                LET out == ZeroRecords(dest)[k]
                IN  /\ HasRootPrefix(deps[k]) =>
                          components(out) = components(relative_root.path) \o Remainder(deps[k])
                    /\ ~HasRootPrefix(deps[k]) => out = deps[k]
                    /\ (HasRootPrefix(deps[k]) /\ current_dir = root) =>
                          deps[k] = (root \o <<SEP>>) \o out

C8_Witness ==
    /\ Finished
    /\ format = "Zero"
    /\ current_dir = root
    /\ Len(deps) >= 2
    /\ HasRootPrefix(deps[1])
    /\ ~HasRootPrefix(deps[2])
    /\ ZeroRecords(dest)[1] = <<"s", SEP, "a", " ", "b">>

\* C9: in Rule format with text FilePath outputs only, the finished line is
\* the targets, one ':' separator, every text dependency escaped and preceded
\* by one space (non-text ones leaving nothing), and one newline as last byte.
C9_MakeLine ==
    (format = "Make" /\ outputs.some /\ AllTextFilePaths(outputs.list)) =>
        /\ (pc = "make_deps" /\ consumed = 0) => dest = MakeTargets(outputs.list) \o <<":">>
        /\ Finished =>
              /\ result = Ok
              /\ dest = ((MakeTargets(outputs.list) \o <<":">>) \o MakeDeps) \o <<"\n">>
              /\ Cardinality(Separators(dest)) = 1
              /\ Count(dest, "\n") = 1
              /\ dest[Len(dest)] = "\n"

C9_Witness ==
    /\ Finished
    /\ format = "Make"
    /\ outputs.some
    /\ Len(outputs.list) >= 2
    /\ AllTextFilePaths(outputs.list)
    /\ Len(deps) >= 2
    /\ to_str_ok(deps[1])
    /\ ~to_str_ok(deps[2])
    /\ result = Ok

\* the backslashes that end at position k of str
RECURSIVE BackslashRun(_, _)
BackslashRun(str, k) ==
    IF k = 0 \/ str[k] # BSL THEN 0 ELSE 1 + BackslashRun(str, k - 1)

InsertedBefore(str, k) ==
    IF str[k] = "$" THEN <<"$">>
    ELSE IF str[k] \in {":", "#"} THEN <<BSL>>
    ELSE IF str[k] \in {" ", TAB} THEN [j \in 1..(BackslashRun(str, k - 1) + 1) |-> BSL]
    ELSE <<>>

\* C10: munge(s) is s with a prefix inserted before some characters: '$'
\* before '$', one backslash before ':' and '#', and before a space or tab one
\* backslash more than the backslashes that immediately precede it; nothing
\* before any other character, a backslash included.
C10_MungeEscaping ==
    /\ mpc = "done" =>
          /\ res = Flatten([k \in 1..Len(s) |-> InsertedBefore(s, k) \o <<s[k]>>])
          /\ res = munge(s)
          /\ \A k \in 1..Len(s) :
                s[k] \in {" ", TAB} =>
                    LET n == BackslashRun(s, k - 1)
                        at == Len(Flatten([j \in 1..k |-> InsertedBefore(s, j) \o <<s[j]>>]))
                    IN  /\ at > 2 * n + 2 => res[at - (2 * n + 1) - 1] # BSL
                        /\ \A j \in 1..(2 * n + 1) : res[at - j] = BSL
    /\ mpc = "loop" => slashes = BackslashRun(s, pos)

C10_Witness ==
    /\ mpc = "done"
    /\ s = <<"a", BSL, BSL, " ">>
    /\ res = <<"a", BSL, BSL, BSL, BSL, BSL, " ">>

====
